---- MODULE Spec2Model ----
(***************************************************************************)
(* Model of label.py: the widget tree (Label, Horizontal, Vertical, Text,  *)
(* QRCode, SVG), the layout negotiation of the containers and the script   *)
(* that renders a root widget on a fresh canvas and saves the image.       *)
(*                                                                         *)
(* A render is followed on ONE canvas.  A container hands each child a      *)
(* fresh image (Image.new) and the child draws only on that image, so the   *)
(* child's render is visible to its caller in two ways only: it returns,    *)
(* or it raises.  The child's own render is another activation of the same  *)
(* actions with the child as root and the child's image as canvas.          *)
(***************************************************************************)
EXTENDS Integers, Sequences, FiniteSets

\* ------------------------------------------------------------- constants
WHITE == 1
BLACK == 0
DPI == 180
LABEL_WIDTH == 36

\* ---------------------------------------------------------------- bounds
MaxW == 6          \* widest canvas offered to a container or a leaf
MaxH == 3          \* tallest canvas offered to a container or a leaf
MaxN == 3          \* most children of a container
MaxPadding == 52   \* largest padding percentage of a QRCode / SVG root
MaxLabelW == 4     \* widest Label
MaxLabelH == 10    \* tallest Label
MaxExtra == 1      \* canvas columns beyond the Label's width
MaxMm == 40        \* longest length handed to px

VARIABLES
    pc,                    \* position of the script / of the render
    root,                  \* the widget being rendered
    W, H,                  \* draw.im.size of the canvas rendered on
    canvas,                \* pixels of the canvas Label draws on; <<>> when
                           \* the root is another widget, whose pastes carry
                           \* content of external generators and are kept
                           \* by position and size in subs
    i, y,                  \* loop variables
    child_height,          \* Vertical's share of the height per child
    offered_child_width, spare_width, num_flexible, flexible_child_width,
    x,                     \* Horizontal's x-cursor
    subs,                  \* one record per child image requested so far
    err,                   \* the exception that ended the render, or "none"
    saved,                 \* image.save has run
    pxArg, pxRet,          \* last call of px
    layoutArgs, layoutRet  \* last pair of calls of layout

vars == <<pc, root, W, H, canvas, i, y, child_height, offered_child_width, spare_width,
          num_flexible, flexible_child_width, x, subs, err, saved,
          pxArg, pxRet, layoutArgs, layoutRet>>

\* --------------------------------------------------------------- helpers
\* Python's int(a / b) for integers a and b > 0: truncation toward zero.
\* Variant: the quotient rounded up.
IntDivCeil(a, b) == -((-a) \div b)
IntDiv(a, b) == IF a >= 0 THEN a \div b ELSE -((-a) \div b)

\* px(l) = int(DPI * l * 0.03937007874015748); the factor is the double
\* nearest to 1/25.4 = 10/254, and for the lengths used here the product's
\* rounding error never carries it across an integer.
\* Variant: rounding to the nearest pixel instead of truncating.
pxRound(l) == (2 * DPI * l * 10 + 254) \div (2 * 254)
px(l) == IntDiv(DPI * l * 10, 254)

\* ---------------------------------------------------------------- layout
\* Widget.layout: the default, inherited by Label, Horizontal, Vertical, Text.
WidgetLayout(self, width, height) == <<width, height>>

\* Variant: the inherited layout, not overridden.
QRCodeLayoutDefault(self, _width, height) == <<_width, height>>
QRCodeLayout(self, _width, height) == <<height, height>>

SVGLayout(self, _width, height) == <<height, height>>

\* child.layout(width, height): dynamic dispatch on the widget's class.
Layout(self, width, height) ==
    CASE self.kind = "QRCode" -> QRCodeLayout(self, width, height)
      [] self.kind = "SVG" -> SVGLayout(self, width, height)
      [] OTHER -> WidgetLayout(self, width, height)

\* --------------------------------------------------------------- widgets
Widget(kind, padding, width, height, children) ==
    [kind |-> kind, padding |-> padding, width |-> width, height |-> height,
     children |-> children]

\* The widgets a container holds, after the tree the script builds.
ChildWidgets ==
    { Widget("Text", 0, 0, 0, <<>>),
      Widget("SVG", 5, 0, 0, <<>>),
      Widget("QRCode", 5, 0, 0, <<>>),
      Widget("Vertical", 0, 0, 0, <<>>),
      Widget("Horizontal", 0, 0, 0, <<>>) }

SeqsUpTo(S, n) == UNION { [1..k -> S] : k \in 0..n }

Labels ==
    { Widget("Label", 0, w, h, <<c>>) :
        w \in 0..MaxLabelW, h \in 0..MaxLabelH, c \in ChildWidgets }

Containers ==
    { Widget(k, 0, 0, 0, cs) :
        k \in {"Horizontal", "Vertical"}, cs \in SeqsUpTo(ChildWidgets, MaxN) }

Leaves ==
    { Widget(k, p, 0, 0, <<>>) : k \in {"QRCode", "SVG"}, p \in 0..MaxPadding }
    \cup { Widget("Text", 0, 0, 0, <<>>) }

\* ---------------------------------------------------------------- images
\* Image.new("1", size, fill) raises ValueError on a negative dimension.
ImageNewOK(size) == size[1] >= 0 /\ size[2] >= 0

ImageNew(size, fill) == [p \in (0..size[1]-1) \X (0..size[2]-1) |-> fill]

\* draw.line([(x0, y0), (x0, y1)], fill) for a vertical segment: both end
\* points are drawn, and what falls outside the image is dropped.
\* Variant: the end point left out.
DrawLineOpen(im, x0, y0, y1, fill) ==
    [p \in DOMAIN im |->
        IF p[1] = x0 /\ p[2] >= y0 /\ p[2] < y1 THEN fill ELSE im[p]]
DrawLine(im, x0, y0, y1, fill) ==
    [p \in DOMAIN im |->
        IF p[1] = x0 /\ p[2] >= y0 /\ p[2] <= y1 THEN fill ELSE im[p]]

\* dst.paste(src, at): src overwrites dst from the corner `at`; the part of
\* src outside dst is clipped, and nothing is raised.
Paste(dst, src, at) ==
    [p \in DOMAIN dst |->
        IF <<p[1] - at[1], p[2] - at[2]>> \in DOMAIN src
        THEN src[<<p[1] - at[1], p[2] - at[2]>>] ELSE dst[p]]

\* Whether paste raises for a box that leaves the destination: it never does.
\* Variant: a paste that rejects a box leaving the destination.
PasteRejectsOverflow(size, at, dstW, dstH) ==
    at[1] + size[1] > dstW \/ at[2] + size[2] > dstH
PasteRaises(size, at, dstW, dstH) == FALSE

\* What a child may have drawn on the image it was handed.
Patterns == {"paper", "ink", "checks"}
ChildImage(size, pattern) ==
    [p \in (0..size[1]-1) \X (0..size[2]-1) |->
        CASE pattern = "paper" -> WHITE
          [] pattern = "ink" -> BLACK
          [] OTHER -> (p[1] + p[2]) % 2]

Sub(size, at, status) ==
    [w |-> size[1], h |-> size[2], x |-> at[1], y |-> at[2], status |-> status]

\* ------------------------------------------------------------------ Init
Init ==
    /\ pc = "idle"
    /\ root = Widget("none", 0, 0, 0, <<>>)
    /\ W = 0 /\ H = 0
    /\ canvas = <<>>
    /\ i = 0 /\ y = 0
    /\ child_height = 0
    /\ offered_child_width = 0 /\ spare_width = 0
    /\ num_flexible = 0 /\ flexible_child_width = 0
    /\ x = 0
    /\ subs = <<>>
    /\ err = "none"
    /\ saved = FALSE
    /\ pxArg = 0 /\ pxRet = 0
    /\ layoutArgs = <<>> /\ layoutRet = <<>>

calls == <<pxArg, pxRet, layoutArgs, layoutRet>>
hvars == <<offered_child_width, spare_width, num_flexible, flexible_child_width, x>>

\* ---------------------------------------------------------------- script
\* image = Image.new("1", (width, height), WHITE); root.render(Draw(image))
MainLabel ==
    /\ pc = "idle"
    /\ \E w \in Labels, extra \in 0..MaxExtra :
        /\ root' = w
        /\ W' = w.width + extra
        /\ H' = w.height
        /\ canvas' = ImageNew(<<w.width + extra, w.height>>, WHITE)
    /\ pc' = "Label"
    /\ UNCHANGED <<i, y, child_height, hvars, subs, err, saved, calls>>

Main ==
    /\ pc = "idle"
    /\ \E w \in Containers \cup Leaves, width \in 0..MaxW, height \in 0..MaxH :
        /\ root' = w
        /\ W' = width
        /\ H' = height
        /\ pc' = w.kind
    /\ UNCHANGED <<canvas, i, y, child_height, hvars, subs, err, saved, calls>>

\* image.save(...): reached only when render returned.
Save ==
    /\ pc = "returned"
    /\ saved' = TRUE
    /\ pc' = "saved"
    /\ UNCHANGED <<root, W, H, canvas, i, y, child_height, hvars, subs, err, calls>>

Raise(e) == pc' = "error" /\ err' = e

\* ----------------------------------------------------------------- Label
MarkerX(k) == IF k = 0 THEN 0 ELSE root.width - 1

LabelDrawLine ==
    /\ pc = "Label" /\ i < 2 /\ y < root.height
    /\ canvas' = DrawLine(canvas, MarkerX(i), y, y + 4, BLACK)
    /\ y' = y + 8
    /\ UNCHANGED <<pc, root, W, H, i, child_height, hvars, subs, err, saved, calls>>

LabelNextColumn ==
    /\ pc = "Label" /\ i < 2 /\ y >= root.height
    /\ i' = i + 1
    /\ y' = 0
    /\ UNCHANGED <<pc, root, W, H, canvas, child_height, hvars, subs, err, saved, calls>>

LabelRenderChild ==
    /\ pc = "Label" /\ i = 2
    /\ LET size == <<root.width - 2, root.height>>
           at == <<1, 0>>
       IN  \/ /\ ~ImageNewOK(size)
              /\ Raise("ValueError")
              /\ subs' = Append(subs, Sub(size, at, "invalid"))
              /\ UNCHANGED canvas
           \/ /\ ImageNewOK(size)
              /\ Raise("child")
              /\ subs' = Append(subs, Sub(size, at, "raised"))
              /\ UNCHANGED canvas
           \/ /\ ImageNewOK(size)
              /\ IF PasteRaises(size, at, W, H)
                 THEN /\ Raise("ValueError")
                      /\ subs' = Append(subs, Sub(size, at, "rejected"))
                      /\ UNCHANGED canvas
                 ELSE /\ \E pattern \in Patterns :
                            canvas' = Paste(canvas, ChildImage(size, pattern), at)
                      /\ subs' = Append(subs, Sub(size, at, "pasted"))
                      /\ pc' = "returned"
                      /\ UNCHANGED err
    /\ UNCHANGED <<root, W, H, i, y, child_height, hvars, saved, calls>>

\* ------------------------------------------------------------ containers
N == Len(root.children)

\* Image.new(size); child.render(Draw(image)); canvas.paste(image, at):
\* the outcomes of one trip through a container's render loop.  `next` is
\* what the loop does after the paste.
RenderChild(size, at, next) ==
    \/ /\ ~ImageNewOK(size)
       /\ Raise("ValueError")
       /\ subs' = Append(subs, Sub(size, at, "invalid"))
       /\ UNCHANGED <<i, x>>
    \/ /\ ImageNewOK(size)
       /\ Raise("child")
       /\ subs' = Append(subs, Sub(size, at, "raised"))
       /\ UNCHANGED <<i, x>>
    \/ /\ ImageNewOK(size)
       /\ IF PasteRaises(size, at, W, H)
          THEN /\ Raise("ValueError")
               /\ subs' = Append(subs, Sub(size, at, "rejected"))
               /\ UNCHANGED <<i, x>>
          ELSE /\ subs' = Append(subs, Sub(size, at, "pasted"))
               /\ next
               /\ UNCHANGED <<pc, err>>

\* ------------------------------------------------------------ Horizontal
HorizontalBegin ==
    /\ pc = "Horizontal"
    /\ IF N = 0
       THEN /\ Raise("ZeroDivisionError")
            /\ UNCHANGED <<offered_child_width, spare_width, num_flexible, i>>
       ELSE /\ offered_child_width' = IntDiv(W, N)
            /\ spare_width' = W
            /\ num_flexible' = 0
            /\ i' = 0
            /\ pc' = "h_measure"
            /\ UNCHANGED err
    /\ UNCHANGED <<root, W, H, canvas, y, child_height, flexible_child_width, x,
                   subs, saved, calls>>

\* The first pass classifies a child by what its layout answers.
IsFlexible(child, desired_width) == desired_width = offered_child_width

HorizontalMeasure ==
    /\ pc = "h_measure" /\ i < N
    /\ LET child == root.children[i + 1]
           desired_width == Layout(child, offered_child_width, H)[1]
       IN  IF IsFlexible(child, desired_width)
           THEN /\ num_flexible' = num_flexible + 1
                /\ UNCHANGED spare_width
           ELSE /\ spare_width' = spare_width - desired_width
                /\ UNCHANGED num_flexible
    /\ i' = i + 1
    /\ UNCHANGED <<pc, root, W, H, canvas, y, child_height, offered_child_width,
                   flexible_child_width, x, subs, err, saved, calls>>

FlexibleChildWidth ==
    IF num_flexible = 0 THEN offered_child_width
    ELSE IntDiv(spare_width, num_flexible)

HorizontalFlexibleWidth ==
    /\ pc = "h_measure" /\ i = N
    /\ flexible_child_width' = FlexibleChildWidth
    /\ x' = 0
    /\ i' = 0
    /\ pc' = "h_render"
    /\ UNCHANGED <<root, W, H, canvas, y, child_height, offered_child_width,
                   spare_width, num_flexible, subs, err, saved, calls>>

\* Variant: one more pixel of gap per child.
HorizontalPasteAtGap(child_layout) == <<x + i, 0>>
HorizontalPasteAt(child_layout) == <<x, 0>>

HorizontalRenderChild ==
    /\ pc = "h_render" /\ i < N
    /\ LET child == root.children[i + 1]
           child_layout == Layout(child, flexible_child_width, H)
       IN  RenderChild(child_layout, HorizontalPasteAt(child_layout),
                       x' = x + child_layout[1] /\ i' = i + 1)
    /\ UNCHANGED <<root, W, H, canvas, y, child_height, offered_child_width,
                   spare_width, num_flexible, flexible_child_width, saved, calls>>

HorizontalReturn ==
    /\ pc = "h_render" /\ i = N
    /\ pc' = "returned"
    /\ UNCHANGED <<root, W, H, canvas, i, y, child_height, hvars, subs, err,
                   saved, calls>>

\* -------------------------------------------------------------- Vertical
\* Variant: the share rounded up.
ChildHeightCeil == IntDivCeil(H, N)
ChildHeight == IntDiv(H, N)

VerticalBegin ==
    /\ pc = "Vertical"
    /\ IF N = 0
       THEN /\ Raise("ZeroDivisionError")
            /\ UNCHANGED <<child_height, i>>
       ELSE /\ child_height' = ChildHeight
            /\ i' = 0
            /\ pc' = "v_render"
            /\ UNCHANGED err
    /\ UNCHANGED <<root, W, H, canvas, y, hvars, subs, saved, calls>>

VerticalRenderChild ==
    /\ pc = "v_render" /\ i < N
    /\ RenderChild(<<W, child_height>>, <<0, i * child_height>>,
                   i' = i + 1 /\ UNCHANGED x)
    /\ UNCHANGED <<root, W, H, canvas, y, child_height, offered_child_width,
                   spare_width, num_flexible, flexible_child_width, saved, calls>>

VerticalReturn ==
    /\ pc = "v_render" /\ i = N
    /\ pc' = "returned"
    /\ UNCHANGED <<root, W, H, canvas, i, y, child_height, hvars, subs, err,
                   saved, calls>>

\* ---------------------------------------------------------------- leaves
\* The size the generated bitmap is scaled to, and the corner it is pasted at.
\* Variant: the padding taken off once, not on both sides.
PaddedSizeOneSide(width, height, padding) ==
    << (width * (100 - padding)) \div 100,
       (height * (100 - padding)) \div 100 >>
PaddedSize(width, height, padding) ==
    << (width * (100 - 2 * padding)) \div 100,
       (height * (100 - 2 * padding)) \div 100 >>
PaddedAt(width, height, padding) ==
    << (width * padding) \div 100, (height * padding) \div 100 >>

\* The barcode generator, the rasterizer and resize may raise for reasons of
\* their own; a negative size always raises.
LeafRender(kind) ==
    /\ pc = kind
    /\ LET size == PaddedSize(W, H, root.padding)
           at == PaddedAt(W, H, root.padding)
       IN  \/ /\ ~ImageNewOK(size)
              /\ Raise("ValueError")
              /\ subs' = Append(subs, Sub(size, at, "invalid"))
           \/ /\ ImageNewOK(size)
              /\ Raise("external")
              /\ subs' = Append(subs, Sub(size, at, "raised"))
           \/ /\ ImageNewOK(size)
              /\ IF PasteRaises(size, at, W, H)
                 THEN /\ Raise("ValueError")
                      /\ subs' = Append(subs, Sub(size, at, "rejected"))
                 ELSE /\ subs' = Append(subs, Sub(size, at, "pasted"))
                      /\ pc' = "returned"
                      /\ UNCHANGED err
    /\ UNCHANGED <<root, W, H, canvas, i, y, child_height, hvars, saved, calls>>

QRCodeRender == LeafRender("QRCode")

SVGRender == LeafRender("SVG")

\* Text draws glyphs on the canvas it is given and pastes nothing; loading
\* the font may raise.
TextRender ==
    /\ pc = "Text"
    /\ \/ Raise("external")
       \/ pc' = "returned" /\ UNCHANGED err
    /\ UNCHANGED <<root, W, H, canvas, i, y, child_height, hvars, subs, saved, calls>>

\* ------------------------------------------------------- px and layout
CallPx ==
    /\ pc = "idle"
    /\ \E l \in 0..MaxMm :
        /\ pxArg' = l
        /\ pxRet' = px(l)
    /\ pc' = "px"
    /\ UNCHANGED <<root, W, H, canvas, i, y, child_height, hvars, subs, err,
                   saved, layoutArgs, layoutRet>>

\* The two calls Horizontal makes on one child: same height, two widths.
LayoutWidgets ==
    { Widget(k, p, 0, 0, <<>>) : k \in {"QRCode", "SVG"}, p \in 0..MaxPadding }
    \cup { Widget(k, 0, 0, 0, <<>>) : k \in {"Text", "Vertical", "Horizontal"} }

CallLayout ==
    /\ pc = "idle"
    /\ \E self \in LayoutWidgets, w1 \in 0..MaxW, w2 \in 0..MaxW, h \in 0..MaxH :
        /\ layoutArgs' = [self |-> self, w1 |-> w1, w2 |-> w2, h |-> h]
        /\ layoutRet' = <<Layout(self, w1, h), Layout(self, w2, h)>>
    /\ pc' = "layout"
    /\ UNCHANGED <<root, W, H, canvas, i, y, child_height, hvars, subs, err,
                   saved, pxArg, pxRet>>

\* ------------------------------------------------------------------ Next
Next ==
    \/ MainLabel
    \/ Main
    \/ Save
    \/ LabelDrawLine
    \/ LabelNextColumn
    \/ LabelRenderChild
    \/ HorizontalBegin
    \/ HorizontalMeasure
    \/ HorizontalFlexibleWidth
    \/ HorizontalRenderChild
    \/ HorizontalReturn
    \/ VerticalBegin
    \/ VerticalRenderChild
    \/ VerticalReturn
    \/ QRCodeRender
    \/ SVGRender
    \/ TextRender
    \/ CallPx
    \/ CallLayout

Spec == Init /\ [][Next]_vars

\* ================================================================ claims
Done == pc \in {"returned", "saved"}

RECURSIVE SumWidths(_, _)
SumWidths(s, n) == IF n = 0 THEN 0 ELSE s[n].w + SumWidths(s, n - 1)

\* A child is fixed when its layout width does not depend on the offer.
FixedChild(c) == c.kind \in {"QRCode", "SVG"}
FixedIdx == { j \in 1..N : FixedChild(root.children[j]) }
FlexIdx == { j \in 1..N : ~FixedChild(root.children[j]) }
\* QRCode and SVG are the fixed widgets, each H wide.
FixedSum == Cardinality(FixedIdx) * H

Overflows(s) == s.x + s.w > W \/ s.y + s.h > H

\* C1: a completed Horizontal.render with at least one flexible child and
\* fixed widths summing to F <= W gives every fixed child its fixed width
\* and every flexible child floor((W - F) / k), so that the consumed width
\* lies between W - (k-1) and W.
C1_FixedAndFlexibleShare ==
    (root.kind = "Horizontal" /\ Done /\ N >= 1
        /\ FlexIdx # {} /\ FixedSum <= W)
    => LET k == Cardinality(FlexIdx) IN
       /\ \A j \in FixedIdx : subs[j].w = H
       /\ \A j \in FlexIdx : subs[j].w = (W - FixedSum) \div k
       /\ SumWidths(subs, N) >= W - (k - 1)
       /\ SumWidths(subs, N) <= W

\* C2: a completed Horizontal.render whose N >= 1 children all answered the
\* offered child width in the first pass allocates widths that sum to at
\* most W and at least W - (N-1), any two of them at most 1 pixel apart.
C2_AllFlexible ==
    (root.kind = "Horizontal" /\ Done /\ N >= 1 /\ num_flexible = N)
    => /\ Len(subs) = N
       /\ SumWidths(subs, N) <= W
       /\ SumWidths(subs, N) >= W - (N - 1)
       /\ \A j, k \in 1..N :
            subs[j].w - subs[k].w <= 1 /\ subs[k].w - subs[j].w <= 1

C2_Witness ==
    /\ root.kind = "Horizontal" /\ pc = "saved" /\ N = 3 /\ num_flexible = N
    /\ W = 5 /\ SumWidths(subs, N) = 3

\* C3: Vertical.render gives child i (from 0) a sub-canvas of exactly
\* (W, floor(H/N)) pasted at (0, i * floor(H/N)): the regions are disjoint
\* and contiguous from the top; a completed render consumes N * floor(H/N)
\* rows and leaves H mod N rows (fewer than N) at the bottom.
C3_VerticalEqualShares ==
    (root.kind = "Vertical" /\ N >= 1)
    => /\ \A j \in DOMAIN subs :
            /\ subs[j].w = W /\ subs[j].h = H \div N
            /\ subs[j].x = 0 /\ subs[j].y = (j - 1) * (H \div N)
            /\ j > 1 => subs[j].y = subs[j-1].y + subs[j-1].h
            /\ subs[j].y + subs[j].h <= H
       /\ Done =>
            /\ Len(subs) = N
            /\ \A j \in DOMAIN subs : subs[j].status = "pasted"
            /\ subs[N].y + subs[N].h = N * (H \div N)
            /\ H - (subs[N].y + subs[N].h) = H % N
            /\ H % N < N

C3_Witness ==
    /\ root.kind = "Vertical" /\ pc = "saved" /\ N = 2 /\ H = 3
    /\ root.children[1].kind = "QRCode"
    /\ subs[2].y = 1 /\ subs[2].h = 1

TickInk(n) == \A c \in {0, root.width - 1}, r \in 0..(H - 1) :
    <<c, r>> \in DOMAIN canvas =>
        (canvas[<<c, r>>] = BLACK <=> r % 8 < n)

C5_SquareLayout ==
    (pc = "layout" /\ layoutArgs.self.kind \in {"QRCode", "SVG"}
        /\ layoutArgs.h > 0)
    => /\ layoutRet[1] = <<layoutArgs.h, layoutArgs.h>>
       /\ layoutRet[2] = layoutRet[1]

C5_Witness ==
    /\ pc = "layout" /\ layoutArgs.self.kind = "QRCode"
    /\ layoutArgs.self.padding = 7
    /\ layoutArgs.h = 2 /\ layoutArgs.w1 = 5 /\ layoutArgs.w2 = 0
    /\ layoutRet = << <<2, 2>>, <<2, 2>> >>

\* C6 as stated: px of 36 mm at DPI 180 is 254.
C6_Px36Is254 == (pc = "px" /\ pxArg = LABEL_WIDTH) => pxRet = 254

\* C6: px(l) is DPI * l / 25.4 truncated to an integer, and px of 36 mm at
\* DPI 180 is 255.
C6_Px36Is255 ==
    pc = "px" =>
        /\ 254 * pxRet <= DPI * pxArg * 10
        /\ DPI * pxArg * 10 < 254 * (pxRet + 1)
        /\ pxArg = LABEL_WIDTH => pxRet = 255

C6_Witness == pc = "px" /\ pxArg = LABEL_WIDTH /\ pxRet = 255

\* C7 as stated: a render in which a pasted sub-canvas extends beyond its
\* parent's canvas ends in an error and no image is saved.
C7_OverflowIsAnError ==
    saved => \A j \in DOMAIN subs : ~Overflows(subs[j])

\* C7: a sub-canvas that extends beyond its parent's canvas is pasted
\* without an error, the part outside being clipped, and the render goes
\* on; a render ends in an error only when a container has no children, a
\* negative size is requested, or a child or an external generator raises.
C7_OverflowIsClipped ==
    /\ \A j \in DOMAIN subs :
          (Overflows(subs[j]) /\ ImageNewOK(<<subs[j].w, subs[j].h>>))
          => subs[j].status \in {"pasted", "raised"}
    /\ pc = "error" =>
          \/ err = "ZeroDivisionError" /\ N = 0
          \/ /\ subs # <<>>
             /\ err = "ValueError" /\ subs[Len(subs)].status = "invalid"
          \/ /\ subs # <<>>
             /\ err \in {"child", "external"}
             /\ subs[Len(subs)].status = "raised"
          \/ err = "external" /\ root.kind = "Text"

C7_Witness ==
    /\ saved /\ root.kind = "Horizontal" /\ N = 2
    /\ subs[1].status = "pasted" /\ subs[2].status = "pasted"
    /\ Overflows(subs[1]) /\ Overflows(subs[2])

LeafPasted ==
    /\ root.kind \in {"QRCode", "SVG"} /\ root.padding <= 50
    /\ Done

\* C8 as stated: the bitmap a QRCode or SVG pastes is centered, the left
\* margin equal to the right one and the top margin to the bottom one.
C8_MarginsEqual ==
    LeafPasted =>
        /\ subs[1].x = W - (subs[1].x + subs[1].w)
        /\ subs[1].y = H - (subs[1].y + subs[1].h)

\* C8: for padding p in 0..50 the pasted bitmap has size
\* (floor(W*(100-2p)/100), floor(H*(100-2p)/100)) and lies inside the
\* offered region; the left and top margins are floor(W*p/100) and
\* floor(H*p/100), and the right and bottom margins are at least as large
\* and exceed them by at most 2 pixels.
C8_MarginsWithinTwo ==
    LeafPasted =>
        LET s == subs[1]
            p == root.padding
            right == W - (s.x + s.w)
            bottom == H - (s.y + s.h)
        IN  /\ s.status = "pasted"
            /\ s.w = (W * (100 - 2 * p)) \div 100
            /\ s.h = (H * (100 - 2 * p)) \div 100
            /\ s.x >= 0 /\ s.y >= 0 /\ s.w >= 0 /\ s.h >= 0
            /\ s.x + s.w <= W /\ s.y + s.h <= H
            /\ s.x = (W * p) \div 100 /\ s.y = (H * p) \div 100
            /\ right - s.x \in 0..2
            /\ bottom - s.y \in 0..2

C8_Witness ==
    /\ LeafPasted /\ root.kind = "SVG" /\ root.padding = 10 /\ W = 6 /\ H = 3
    /\ subs[1].w = 4 /\ subs[1].x = 0 /\ subs[1].h = 2 /\ subs[1].y = 0

\* C9: Horizontal.render pastes its children in list order at y = 0, child
\* i at x equal to the sum of the second-pass widths of the children before
\* it, each sub-canvas having the full offered height: the pasted regions
\* neither overlap nor leave a gap between consecutive children.
C9_LeftToRight ==
    root.kind = "Horizontal" =>
        \A j \in DOMAIN subs :
            /\ subs[j].w = Layout(root.children[j], flexible_child_width, H)[1]
            /\ subs[j].h = H
            /\ subs[j].y = 0
            /\ subs[j].x = SumWidths(subs, j - 1)
            /\ j > 1 => /\ subs[j-1].status = "pasted"
                        /\ subs[j-1].w >= 0
                        /\ subs[j].x = subs[j-1].x + subs[j-1].w
            /\ \A k \in 1..(j - 1) : subs[k].x + subs[k].w <= subs[j].x

C9_Witness ==
    /\ root.kind = "Horizontal" /\ pc = "saved" /\ N = 3
    /\ W = 6 /\ H = 1
    /\ root.children[1].kind = "SVG" /\ root.children[3].kind = "QRCode"
    /\ subs[1].x = 0 /\ subs[2].x = 1 /\ subs[3].x = 5

\* C10: in every Horizontal.render whose children are flexible widgets or
\* QRCode / SVG, the width offered in the second pass and the width and
\* height of every sub-canvas are non-negative.
C10_SizesNonNegative ==
    (root.kind = "Horizontal" /\ N >= 1)
    => /\ flexible_child_width >= 0
       /\ \A j \in DOMAIN subs : subs[j].w >= 0 /\ subs[j].h >= 0

====
